---------------------------- MODULE Spec2Model ----------------------------
(***************************************************************************)
(* Model of the Garmin sync driver (johnny/sync_to_db.py), its parsers     *)
(* (johnny/parsers.py) and the session it persists through (johnny/db.py,  *)
(* johnny/models.py).                                                      *)
(*                                                                         *)
(* One sync run is: date argument -> authentication -> five fetches ->     *)
(* four parsers -> "nothing to save" test -> init_db -> session -> merge   *)
(* of the daily rows -> per activity (delete splits, merge, flush, add     *)
(* splits) -> commit -> close.  Runs follow one another on the same store. *)
(*                                                                         *)
(* JSON values are records [kind, num]; every entity keeps its key, one    *)
(* representative of the columns that go through _sentinel, and the        *)
(* columns that are treated differently.                                   *)
(***************************************************************************)
EXTENDS Integers, Sequences, FiniteSets, TLC

VARIABLES
    pc,              \* position of the run inside main()
    outcome,         \* how the last run ended
    target_date,     \* main: target_date (a string value)
    api,             \* main: api, "none" or "client"
    stats_body,      \* main: the five fetched payloads
    hydration,
    sleep_data,
    hrv_data,
    activities_data,
    rows,            \* main: rows, the parsed daily records by table name
    activities,      \* main: activities, the parsed Activity objects
    idx,             \* position of the "for act in activities" loop
    split_dicts,     \* main: split_dicts of the current activity
    session,         \* "none", "open" or "closed"
    pending,         \* the session's unit of work, not yet flushed
    txn,             \* the store as seen inside the open transaction
    db,              \* the committed store
    next_split_id,   \* AUTO_INCREMENT counter of activity_split_summaries.id
    db_before,       \* history: the committed store when the run started
    id_before,       \* history: next_split_id when the run started
    log,             \* history: the operations of the current run, in order
    prev             \* history: payloads and store of the last committed run

vars == <<pc, outcome, target_date, api, stats_body, hydration, sleep_data, hrv_data,
          activities_data, rows, activities, idx, split_dicts, session, pending,
          txn, db, next_split_id, db_before, id_before, log, prev>>

(***************************************************************************)
(* Bounds.                                                                 *)
(***************************************************************************)
\* No run starts once the AUTO_INCREMENT counter has passed this value.
MaxSplitId == 3
\* Longest fetched activity list.
MaxActs == 2
\* Most splitSummaries entries of one fetched activity.
MaxSplits == 2

\* date.today() - timedelta(days=1), as a day number.
Yesterday == 1
Dates == {1, 2}
ActivityIds == {1, 2}

(***************************************************************************)
(* JSON values.                                                            *)
(***************************************************************************)
None == [kind |-> "none", num |-> 0]
\* A key that the mapping does not have.
Missing == [kind |-> "missing", num |-> 0]
IntV(n) == [kind |-> "int", num |-> n]
FloatV(n) == [kind |-> "float", num |-> n]
\* A string; StrV(d) for d in Dates is the ISO text of day d, StrV(-1) is "-1".
StrV(n) == [kind |-> "str", num |-> n]
BadDate == StrV(0)

\* True or False; isinstance(True, int) holds and True == 1.
BoolV(n) == [kind |-> "bool", num |-> n]

\* dict.get(key)
Get(v) == IF v = Missing THEN None ELSE v

\* date.fromisoformat(v) returns a date: v is a well-formed ISO date string.
\* (KeyError on a missing key, TypeError on a non-string, ValueError otherwise.)
IsIsoDate(v) == v.kind = "str" /\ v.num \in Dates

SentinelDropsZero(val) ==
    IF val.kind = "none" THEN None
    ELSE IF val.kind \in {"int", "float"} /\ val.num \in {-1, -2, 0} THEN None
    ELSE val

_sentinel(val) ==
    IF val.kind = "none" THEN None
    ELSE IF val.kind \in {"int", "float"} /\ val.num \in {-1, -2} THEN None
    ELSE val

\* Python truth of a fetched payload: None and empty containers are false.
Truthy(p) == p.kind \in {"dict", "list"}

(***************************************************************************)
(* Payloads.  kind: "none" (None, also after a failed fetch), "empty"      *)
(* ({} or []), "dict", "list".                                             *)
(***************************************************************************)
NoStats == [kind |-> "none", calendarDate |-> Missing, totalSteps |-> Missing]
Stats(d, v) == [kind |-> "dict", calendarDate |-> d, totalSteps |-> v]

NoHydration == [kind |-> "none", valueInML |-> Missing]
Hydration(v) == [kind |-> "dict", valueInML |-> v]

\* dailySleepDTO: kind "missing", "none", "empty" or "dict".
NoDto == [kind |-> "missing", calendarDate |-> Missing, sleepTimeSeconds |-> Missing]
NullDto == [kind |-> "none", calendarDate |-> Missing, sleepTimeSeconds |-> Missing]
EmptyDto == [kind |-> "empty", calendarDate |-> Missing, sleepTimeSeconds |-> Missing]
Dto(d, v) == [kind |-> "dict", calendarDate |-> d, sleepTimeSeconds |-> v]
NoSleep == [kind |-> "none", dailySleepDTO |-> NoDto]
Sleep(dto) == [kind |-> "dict", dailySleepDTO |-> dto]

\* hrvSummary.baseline: kind "missing", "none", "dict" or "other" (a non-mapping).
NoBaseline == [kind |-> "missing", lowUpper |-> Missing]
Baseline(v) == [kind |-> "dict", lowUpper |-> v]
OddBaseline == [kind |-> "other", lowUpper |-> Missing]
NoSummary == [kind |-> "missing", calendarDate |-> Missing, weeklyAvg |-> Missing,
              baseline |-> NoBaseline]
Summary(d, v, b) == [kind |-> "dict", calendarDate |-> d, weeklyAvg |-> v, baseline |-> b]
NoHrv == [kind |-> "none", hrvSummary |-> NoSummary]
Hrv(s) == [kind |-> "dict", hrvSummary |-> s]

\* One entry of activities_by_date; activityType is "missing", "none" or "dict".
NoType == [kind |-> "missing", typeId |-> Missing]
Type(v) == [kind |-> "dict", typeId |-> v]
RawSplit(v) == [distance |-> v]
Entry(id, ty, dist, sps) ==
    [activityId |-> id, activityType |-> ty, distance |-> dist, splitSummaries |-> sps]
NoActivities == [kind |-> "none", items |-> <<>>]
\* A truthy payload that is not a list.
OddActivities == [kind |-> "dict", items |-> <<>>]
ActivityList(items) ==
    [kind |-> IF items = <<>> THEN "empty" ELSE "list", items |-> items]

(***************************************************************************)
(* Parsers.  A parser that can raise returns [raised, ...].                *)
(***************************************************************************)
NoSummaryRow == [calendar_date |-> 0, total_steps |-> None, hydration_value_ml |-> None]
NoSleepRow == [calendar_date |-> 0, sleep_time_seconds |-> None]
NoHrvRow == [calendar_date |-> 0, weekly_avg |-> None, baseline_low_upper |-> None]

\* h = hydration or {}; h.get("valueInML")
HydrationValue(h) == IF Truthy(h) THEN Get(h.valueInML) ELSE None

parse_daily_summary(s, h) ==
    IF ~IsIsoDate(s.calendarDate)
    THEN [raised |-> TRUE, rec |-> NoSummaryRow]
    ELSE [raised |-> FALSE,
          rec |-> [calendar_date |-> s.calendarDate.num,
                   total_steps |-> _sentinel(Get(s.totalSteps)),
                   hydration_value_ml |-> _sentinel(HydrationValue(h))]]

\* cal_date_str is falsy: the key is missing, None or the empty string.
NoDateStr(v) == v.kind \in {"missing", "none"}

\* A parser for which a payload without a summary is an error.
ParseDailySleepStrict(sd) ==
    LET dto == sd.dailySleepDTO IN
    IF dto.kind # "dict" \/ ~IsIsoDate(dto.calendarDate)
    THEN [raised |-> TRUE, none |-> TRUE, rec |-> NoSleepRow]
    ELSE [raised |-> FALSE, none |-> FALSE,
          rec |-> [calendar_date |-> dto.calendarDate.num,
                   sleep_time_seconds |-> _sentinel(Get(dto.sleepTimeSeconds))]]

parse_daily_sleep(sd) ==
    LET dto == sd.dailySleepDTO IN
    IF dto.kind # "dict" \/ NoDateStr(dto.calendarDate)
    THEN [raised |-> FALSE, none |-> TRUE, rec |-> NoSleepRow]
    ELSE IF ~IsIsoDate(dto.calendarDate)
    THEN [raised |-> TRUE, none |-> TRUE, rec |-> NoSleepRow]
    ELSE [raised |-> FALSE, none |-> FALSE,
          rec |-> [calendar_date |-> dto.calendarDate.num,
                   sleep_time_seconds |-> _sentinel(Get(dto.sleepTimeSeconds))]]

parse_daily_hrv(hd) ==
    LET summary == hd.hrvSummary
        baseline == summary.baseline
    IN
    IF summary.kind # "dict" \/ NoDateStr(summary.calendarDate)
    THEN [raised |-> FALSE, none |-> TRUE, rec |-> NoHrvRow]
    ELSE IF ~IsIsoDate(summary.calendarDate)
    THEN [raised |-> TRUE, none |-> TRUE, rec |-> NoHrvRow]
    ELSE [raised |-> FALSE, none |-> FALSE,
          rec |-> [calendar_date |-> summary.calendarDate.num,
                   weekly_avg |-> _sentinel(Get(summary.weeklyAvg)),
                   baseline_low_upper |->
                       IF baseline.kind = "dict"
                       THEN _sentinel(Get(baseline.lowUpper))
                       ELSE None]]

ParseSplits(sps) ==
    [i \in 1..Len(sps) |-> [distance_meters |-> _sentinel(Get(sps[i].distance))]]

\* act_type = a.get("activityType") or {}; act_type.get("typeId")
TypeId(a) == IF a.activityType.kind = "dict" THEN Get(a.activityType.typeId) ELSE None

ParseEntry(a, target) ==
    [activity_id |-> a.activityId.num,
     calendar_date |-> target.num,
     activity_type_id |-> TypeId(a),
     distance_meters |-> _sentinel(Get(a.distance)),
     split_summaries |-> ParseSplits(a.splitSummaries)]

\* a["activityId"] raises KeyError out of the loop and out of the parser.
parse_activities(items, target) ==
    IF \E i \in 1..Len(items) : items[i].activityId = Missing
    THEN [raised |-> TRUE, result |-> <<>>]
    ELSE [raised |-> FALSE,
          result |-> [i \in 1..Len(items) |-> ParseEntry(items[i], target)]]

(***************************************************************************)
(* The store and the session.                                              *)
(***************************************************************************)
EmptyDb == [daily_summary |-> {}, daily_sleep |-> {}, daily_hrv |-> {},
            activities |-> {}, activity_split_summaries |-> {}]

\* What the session holds back until the next flush: the merged objects per
\* table and the added ActivitySplitSummary objects, in order.
NoPending == [daily_summary |-> {}, daily_sleep |-> {}, daily_hrv |-> {},
              activities |-> {}, added |-> <<>>]

NoRows == [daily_summary |-> {}, daily_sleep |-> {}, daily_hrv |-> {}]

\* The Activity columns of a parsed Activity (its relationship list left out).
ActivityRow(act) ==
    [activity_id |-> act.activity_id,
     calendar_date |-> act.calendar_date,
     activity_type_id |-> act.activity_type_id,
     distance_meters |-> act.distance_meters]

\* An UPDATE that never inserts.
UpdateOnlyActivity(T, S) ==
    {r \in T : \A s \in S : r.activity_id # s.activity_id}
        \cup {s \in S : \E r \in T : r.activity_id = s.activity_id}

\* A merge that patches: a column whose new value is None keeps its old value.
UpsertDailyPatch(T, S) ==
    {r \in T : \A s \in S : r.calendar_date # s.calendar_date}
        \cup {[f \in DOMAIN s |->
                  IF /\ f # "calendar_date"
                     /\ s[f] = None
                     /\ \E r \in T : r.calendar_date = s.calendar_date
                  THEN (CHOOSE r \in T : r.calendar_date = s.calendar_date)[f]
                  ELSE s[f]] : s \in S}

\* A merge that replaces the table by the merged objects.
UpsertDailyWholeTable(T, S) == IF S = {} THEN T ELSE S

\* session.merge writes the given object over the row with its primary key.
UpsertDaily(T, S) == {r \in T : \A s \in S : r.calendar_date # s.calendar_date} \cup S
UpsertActivity(T, S) == {r \in T : \A s \in S : r.activity_id # s.activity_id} \cup S

\* INSERT of the added split objects; the store numbers them.
InsertSplits(T, added, nid) ==
    T \cup {[id |-> nid + i - 1,
             activity_id |-> added[i].activity_id,
             distance_meters |-> added[i].distance_meters] : i \in 1..Len(added)}

\* Session.flush(): every pending object reaches the store, inside the
\* transaction.
Flush(t, p, nid) ==
    [daily_summary |-> UpsertDaily(t.daily_summary, p.daily_summary),
     daily_sleep |-> UpsertDaily(t.daily_sleep, p.daily_sleep),
     daily_hrv |-> UpsertDaily(t.daily_hrv, p.daily_hrv),
     activities |-> UpsertActivity(t.activities, p.activities),
     activity_split_summaries |->
         InsertSplits(t.activity_split_summaries, p.added, nid)]

\* No DELETE at all.
DeleteNothing(t, aid) == t

\* A DELETE with the condition inverted.
DeleteOthers(t, aid) ==
    [t EXCEPT !.activity_split_summaries = {r \in @ : r.activity_id = aid}]

\* delete(ActivitySplitSummary).where(activity_id == aid), executed at once.
DeleteSplits(t, aid) ==
    [t EXCEPT !.activity_split_summaries = {r \in @ : r.activity_id # aid}]

\* split_dicts of an activity, as the objects later added with its id.
SplitObjects(aid, dicts) ==
    [i \in 1..Len(dicts) |->
        [activity_id |-> aid, distance_meters |-> dicts[i].distance_meters]]

(***************************************************************************)
(* The run.                                                                *)
(***************************************************************************)
locals == <<target_date, api, stats_body, hydration, sleep_data, hrv_data,
            activities_data, rows, activities, idx, split_dicts>>
store == <<session, pending, txn, db, next_split_id>>
history == <<db_before, id_before, prev>>

NoPrev == [valid |-> FALSE, target_date |-> None, stats_body |-> NoStats,
           hydration |-> NoHydration, sleep_data |-> NoSleep, hrv_data |-> NoHrv,
           activities_data |-> NoActivities, db |-> EmptyDb]

Init ==
    /\ pc = "idle"
    /\ outcome = "none"
    /\ target_date = None
    /\ api = "none"
    /\ stats_body = NoStats
    /\ hydration = NoHydration
    /\ sleep_data = NoSleep
    /\ hrv_data = NoHrv
    /\ activities_data = NoActivities
    /\ rows = NoRows
    /\ activities = <<>>
    /\ idx = 1
    /\ split_dicts = <<>>
    /\ session = "none"
    /\ pending = NoPending
    /\ txn = EmptyDb
    /\ db = EmptyDb
    /\ next_split_id = 1
    /\ db_before = EmptyDb
    /\ id_before = 1
    /\ log = <<>>
    /\ prev = NoPrev

\* What a call of the external service can give: one of the payloads S, or an
\* exception, which _fetch turns into None (the value none).  Once a run has
\* been recorded in prev, the service repeats what it gave in that run.
Served(S, none, again) == IF prev.valid THEN {again} ELSE S \cup {none}

\* The run leaves main() without having opened a session.
Leave(o) ==
    /\ pc' = "done"
    /\ outcome' = o

\* main, lines 49-62: the date argument.  argv is None when no argument is given.
Start(argvs) ==
    /\ pc \in {"idle", "done"}
    /\ next_split_id <= MaxSplitId
    /\ \E a \in (IF prev.valid THEN {prev.target_date} ELSE argvs) :
          LET t == IF a = None THEN StrV(Yesterday) ELSE a IN
          /\ target_date' = t
          /\ IF IsIsoDate(t)
             THEN pc' = "auth" /\ outcome' = "running"
             ELSE Leave("error")
    /\ api' = "none"
    /\ stats_body' = NoStats
    /\ hydration' = NoHydration
    /\ sleep_data' = NoSleep
    /\ hrv_data' = NoHrv
    /\ activities_data' = NoActivities
    /\ rows' = NoRows
    /\ activities' = <<>>
    /\ idx' = 1
    /\ split_dicts' = <<>>
    /\ session' = "none"
    /\ db_before' = db
    /\ id_before' = next_split_id
    /\ log' = <<"start">>
    /\ UNCHANGED <<pending, txn, db, next_split_id, prev>>

\* Whatever init_api() returned, the run goes on.
AuthenticateUnchecked ==
    /\ pc = "auth"
    /\ \E r \in {"client", "none"} :
          /\ api' = r
          /\ pc' = "fetch_stats"
          /\ UNCHANGED outcome
    /\ log' = Append(log, "auth")
    /\ UNCHANGED <<target_date, stats_body, hydration, sleep_data, hrv_data,
                   activities_data, rows, activities, idx, split_dicts, store, history>>

\* main, lines 64-69: init_api() returns the client or None (or leaves the
\* program itself, with api never assigned).
Authenticate ==
    /\ pc = "auth"
    /\ \E r \in {"client", "none"} :
          /\ api' = r
          /\ IF r = "client"
             THEN pc' = "fetch_stats" /\ UNCHANGED outcome
             ELSE Leave("error")
    /\ log' = Append(log, "auth")
    /\ UNCHANGED <<target_date, stats_body, hydration, sleep_data, hrv_data,
                   activities_data, rows, activities, idx, split_dicts, store, history>>

FetchStats(S) ==
    /\ pc = "fetch_stats"
    /\ \E r \in Served(S, NoStats, prev.stats_body) : stats_body' = r
    /\ pc' = "fetch_hydration"
    /\ log' = Append(log, "fetch_stats")
    /\ UNCHANGED <<outcome, target_date, api, hydration, sleep_data, hrv_data,
                   activities_data, rows, activities, idx, split_dicts, store, history>>

FetchHydration(S) ==
    /\ pc = "fetch_hydration"
    /\ \E r \in Served(S, NoHydration, prev.hydration) : hydration' = r
    /\ pc' = "fetch_sleep"
    /\ log' = Append(log, "fetch_hydration")
    /\ UNCHANGED <<outcome, target_date, api, stats_body, sleep_data, hrv_data,
                   activities_data, rows, activities, idx, split_dicts, store, history>>

\* A fetch whose failure ends the run.
FetchSleepAborting(S) ==
    /\ pc = "fetch_sleep"
    /\ \E r \in Served(S, NoSleep, prev.sleep_data) :
          /\ sleep_data' = r
          /\ IF r = NoSleep
             THEN Leave("error")
             ELSE pc' = "fetch_hrv" /\ UNCHANGED outcome
    /\ log' = Append(log, "fetch_sleep")
    /\ UNCHANGED <<target_date, api, stats_body, hydration, hrv_data,
                   activities_data, rows, activities, idx, split_dicts, store, history>>

FetchSleep(S) ==
    /\ pc = "fetch_sleep"
    /\ \E r \in Served(S, NoSleep, prev.sleep_data) : sleep_data' = r
    /\ pc' = "fetch_hrv"
    /\ log' = Append(log, "fetch_sleep")
    /\ UNCHANGED <<outcome, target_date, api, stats_body, hydration, hrv_data,
                   activities_data, rows, activities, idx, split_dicts, store, history>>

FetchHrv(S) ==
    /\ pc = "fetch_hrv"
    /\ \E r \in Served(S, NoHrv, prev.hrv_data) : hrv_data' = r
    /\ pc' = "fetch_activities"
    /\ log' = Append(log, "fetch_hrv")
    /\ UNCHANGED <<outcome, target_date, api, stats_body, hydration, sleep_data,
                   activities_data, rows, activities, idx, split_dicts, store, history>>

FetchActivities(S) ==
    /\ pc = "fetch_activities"
    /\ \E r \in Served(S, NoActivities, prev.activities_data) : activities_data' = r
    /\ pc' = "parse_summary"
    /\ log' = Append(log, "fetch_activities")
    /\ UNCHANGED <<outcome, target_date, api, stats_body, hydration, sleep_data,
                   hrv_data, rows, activities, idx, split_dicts, store, history>>

\* main, lines 84-86.  An exception of the parser leaves main().
ParseSummary ==
    /\ pc = "parse_summary"
    /\ LET r == parse_daily_summary(stats_body, hydration) IN
       IF ~Truthy(stats_body)
       THEN pc' = "parse_sleep" /\ UNCHANGED <<rows, outcome>>
       ELSE IF r.raised
       THEN Leave("error") /\ UNCHANGED rows
       ELSE /\ rows' = [rows EXCEPT !.daily_summary = {r.rec}]
            /\ pc' = "parse_sleep"
            /\ UNCHANGED outcome
    /\ log' = Append(log, "parse_summary")
    /\ UNCHANGED <<target_date, api, stats_body, hydration, sleep_data, hrv_data,
                   activities_data, activities, idx, split_dicts, store, history>>

\* main, lines 88-92.
ParseSleep ==
    /\ pc = "parse_sleep"
    /\ LET r == parse_daily_sleep(sleep_data) IN
       IF ~Truthy(sleep_data)
       THEN pc' = "parse_hrv" /\ UNCHANGED <<rows, outcome>>
       ELSE IF r.raised
       THEN Leave("error") /\ UNCHANGED rows
       ELSE /\ rows' = IF r.none THEN rows ELSE [rows EXCEPT !.daily_sleep = {r.rec}]
            /\ pc' = "parse_hrv"
            /\ UNCHANGED outcome
    /\ log' = Append(log, "parse_sleep")
    /\ UNCHANGED <<target_date, api, stats_body, hydration, sleep_data, hrv_data,
                   activities_data, activities, idx, split_dicts, store, history>>

\* main, lines 94-98.
ParseHrv ==
    /\ pc = "parse_hrv"
    /\ LET r == parse_daily_hrv(hrv_data) IN
       IF ~Truthy(hrv_data)
       THEN pc' = "parse_activities" /\ UNCHANGED <<rows, outcome>>
       ELSE IF r.raised
       THEN Leave("error") /\ UNCHANGED rows
       ELSE /\ rows' = IF r.none THEN rows ELSE [rows EXCEPT !.daily_hrv = {r.rec}]
            /\ pc' = "parse_activities"
            /\ UNCHANGED outcome
    /\ log' = Append(log, "parse_hrv")
    /\ UNCHANGED <<target_date, api, stats_body, hydration, sleep_data, hrv_data,
                   activities_data, activities, idx, split_dicts, store, history>>

\* main, lines 100-103: only a non-empty list is parsed.
ParseActivities ==
    /\ pc = "parse_activities"
    /\ LET r == parse_activities(activities_data.items, target_date) IN
       IF activities_data.kind # "list"
       THEN pc' = "check" /\ UNCHANGED <<activities, outcome>>
       ELSE IF r.raised
       THEN Leave("error") /\ UNCHANGED activities
       ELSE /\ activities' = r.result
            /\ pc' = "check"
            /\ UNCHANGED outcome
    /\ log' = Append(log, "parse_activities")
    /\ UNCHANGED <<target_date, api, stats_body, hydration, sleep_data, hrv_data,
                   activities_data, rows, idx, split_dicts, store, history>>

\* No early return.
CheckNothingNever ==
    /\ pc = "check"
    /\ pc' = "init_db"
    /\ log' = Append(log, "check")
    /\ UNCHANGED <<outcome, locals, store, history>>

\* main, lines 105-107: "Nothing to save."
CheckNothing ==
    /\ pc = "check"
    /\ IF rows = NoRows /\ activities = <<>>
       THEN Leave("nothing")
       ELSE pc' = "init_db" /\ UNCHANGED outcome
    /\ log' = Append(log, "check")
    /\ UNCHANGED <<locals, store, history>>

\* main, line 111: init_db() (it imports the models and issues CREATE TABLE);
\* an exception leaves main() before any session exists.
InitDb ==
    /\ pc = "init_db"
    /\ \E ok \in BOOLEAN :
          IF ok THEN pc' = "get_session" /\ UNCHANGED outcome ELSE Leave("error")
    /\ log' = Append(log, "init_db")
    /\ UNCHANGED <<locals, store, history>>

\* main, line 113: get_session(); autocommit and autoflush are off, so the
\* session works in one transaction that sees the committed store.
GetSession ==
    /\ pc = "get_session"
    /\ session' = "open"
    /\ pending' = NoPending
    /\ txn' = db
    /\ pc' = "merge_rows"
    /\ log' = Append(log, "get_session")
    /\ UNCHANGED <<outcome, locals, db, next_split_id, history>>

\* main, lines 115-117: session.merge of every daily record; nothing is written
\* before the next flush.
MergeRows ==
    /\ pc = "merge_rows"
    /\ pending' = [pending EXCEPT !.daily_summary = rows.daily_summary,
                                  !.daily_sleep = rows.daily_sleep,
                                  !.daily_hrv = rows.daily_hrv]
    /\ pc' = IF activities = <<>> THEN "commit" ELSE "act_delete"
    /\ log' = Append(log, "merge_rows")
    /\ UNCHANGED <<outcome, locals, session, txn, db, next_split_id, history>>

\* main, lines 119-142: snapshot of the splits, clear(), DELETE of the stored
\* splits of this activity id.
DeleteExisting ==
    /\ pc = "act_delete"
    /\ LET act == activities[idx] IN
       /\ split_dicts' = [i \in 1..Len(act.split_summaries) |->
                             [distance_meters |-> act.split_summaries[i].distance_meters]]
       /\ activities' = [activities EXCEPT ![idx].split_summaries = <<>>]
       /\ txn' = DeleteSplits(txn, act.activity_id)
    /\ pc' = "act_merge"
    /\ log' = Append(log, "delete")
    /\ UNCHANGED <<outcome, target_date, api, stats_body, hydration, sleep_data, hrv_data,
                   activities_data, rows, idx, session, pending, db, next_split_id,
                   history>>

\* main, line 143: session.merge(act); the merge cascades to what is left in
\* act.split_summaries.
MergeActivity ==
    /\ pc = "act_merge"
    /\ LET act == activities[idx] IN
       pending' = [pending EXCEPT
                      !.activities = {ActivityRow(act)},
                      !.added = @ \o SplitObjects(act.activity_id, act.split_summaries)]
    /\ pc' = "act_flush"
    /\ log' = Append(log, "merge")
    /\ UNCHANGED <<outcome, locals, session, txn, db, next_split_id, history>>

\* A flush on a connection in autocommit mode.
FlushActivityAutocommit ==
    /\ pc = "act_flush"
    /\ txn' = Flush(txn, pending, next_split_id)
    /\ db' = txn'
    /\ next_split_id' = next_split_id + Len(pending.added)
    /\ pending' = NoPending
    /\ pc' = "act_add"
    /\ log' = Append(log, "flush")
    /\ UNCHANGED <<outcome, locals, session, history>>

\* main, line 144: session.flush().
FlushActivity ==
    /\ pc = "act_flush"
    /\ txn' = Flush(txn, pending, next_split_id)
    /\ next_split_id' = next_split_id + Len(pending.added)
    /\ pending' = NoPending
    /\ pc' = "act_add"
    /\ log' = Append(log, "flush")
    /\ UNCHANGED <<outcome, locals, session, db, history>>

\* main, lines 147-149: session.add of one new object per split dict.
AddSplits ==
    /\ pc = "act_add"
    /\ pending' = [pending EXCEPT
                      !.added = @ \o SplitObjects(activities[idx].activity_id, split_dicts)]
    /\ idx' = idx + 1
    /\ pc' = IF idx < Len(activities) THEN "act_delete" ELSE "commit"
    /\ log' = Append(log, "add")
    /\ UNCHANGED <<outcome, target_date, api, stats_body, hydration, sleep_data, hrv_data,
                   activities_data, rows, activities, split_dicts, session, txn, db,
                   next_split_id, history>>

\* main, line 151: session.commit() flushes what is pending and commits.
Commit ==
    /\ pc = "commit"
    /\ LET t == Flush(txn, pending, next_split_id) IN
       /\ txn' = t
       /\ db' = t
    /\ next_split_id' = next_split_id + Len(pending.added)
    /\ pending' = NoPending
    /\ outcome' = "ok"
    /\ pc' = "close"
    /\ log' = Append(log, "commit")
    /\ UNCHANGED <<locals, session, history>>

PersistSteps == {"merge_rows", "act_delete", "act_merge", "act_flush", "act_add", "commit"}

\* An exception of the store in a step of the try block (lines 114-152):
\* control goes to the finally clause.
PersistFail ==
    /\ pc \in PersistSteps \ {"act_add"}
    /\ outcome' = "error"
    /\ pc' = "close"
    /\ log' = Append(log, "fail")
    /\ UNCHANGED <<locals, store, history>>

\* An interrupt that leaves main() from anywhere, past the finally clause.
InterruptLeaving ==
    /\ pc \notin {"idle", "done", "close"}
    /\ outcome' = "interrupted"
    /\ pc' = "done"
    /\ log' = Append(log, "interrupt")
    /\ UNCHANGED <<locals, store, history>>

\* KeyboardInterrupt (lines 164-169): inside the try block control goes to the
\* finally clause, elsewhere out of main().
Interrupt ==
    /\ pc \notin {"idle", "done", "close"}
    /\ outcome' = "interrupted"
    /\ pc' = IF pc \in PersistSteps THEN "close" ELSE "done"
    /\ log' = Append(log, "interrupt")
    /\ UNCHANGED <<locals, store, history>>

\* main, lines 153-154: session.close() ends the transaction; what was not
\* committed is rolled back (the AUTO_INCREMENT counter is not).  A recorded
\* run keeps its payloads and its store in prev.
Close(record) ==
    /\ pc = "close"
    /\ session' = "closed"
    /\ pending' = NoPending
    /\ txn' = db
    /\ pc' = "done"
    /\ log' = Append(log, "close")
    /\ prev' = IF record /\ outcome = "ok"
               THEN [valid |-> TRUE, target_date |-> target_date,
                     stats_body |-> stats_body, hydration |-> hydration,
                     sleep_data |-> sleep_data, hrv_data |-> hrv_data,
                     activities_data |-> activities_data, db |-> db]
               ELSE prev
    /\ UNCHANGED <<outcome, locals, db, next_split_id, db_before, id_before>>

\* A run that nobody interrupts.  S: what the command line and the external
\* service can give.
NextOf(S, record) ==
    \/ Start(S.argv)
    \/ Authenticate
    \/ FetchStats(S.stats)
    \/ FetchHydration(S.hydration)
    \/ FetchSleep(S.sleep)
    \/ FetchHrv(S.hrv)
    \/ FetchActivities(S.activities)
    \/ ParseSummary
    \/ ParseSleep
    \/ ParseHrv
    \/ ParseActivities
    \/ CheckNothing
    \/ InitDb
    \/ GetSession
    \/ MergeRows
    \/ DeleteExisting
    \/ MergeActivity
    \/ FlushActivity
    \/ AddSplits
    \/ Commit
    \/ PersistFail
    \/ Close(record)

(***************************************************************************)
(* Services.                                                               *)
(***************************************************************************)
\* Sequences over E of length 0..n.
SeqsUpTo(E, n) == UNION {[1..k -> E] : k \in 0..n}

\* Every source answers, coarsely: a good payload, a payload whose mandatory
\* field is missing or malformed, or a failure.
CoarseService ==
    [argv |-> {None, StrV(1), BadDate},
     stats |-> {Stats(StrV(1), IntV(7)), Stats(Missing, IntV(7))},
     hydration |-> {Hydration(IntV(5))},
     sleep |-> {Sleep(Dto(StrV(1), IntV(7))), Sleep(NoDto), Sleep(NullDto),
                Sleep(EmptyDto), Sleep(Dto(Missing, IntV(7))),
                Sleep(Dto(BadDate, IntV(7)))},
     hrv |-> {Hrv(Summary(StrV(1), IntV(7), NoBaseline))},
     activities |-> {ActivityList(<<Entry(IntV(1), NoType, IntV(7), <<RawSplit(IntV(7))>>)>>),
                     ActivityList(<<Entry(IntV(1), NoType, IntV(7), <<>>),
                                    Entry(Missing, NoType, IntV(7), <<>>)>>)}]

\* Here the user may also interrupt the run at any step.
Next == NextOf(CoarseService, FALSE) \/ Interrupt

Spec == Init /\ [][Next]_vars

\* Only the activity source answers: lists of up to MaxActs entries; activity 1
\* has up to MaxSplits split summaries, activity 2 at most one.
ActivityEntries ==
    {Entry(IntV(1), NoType, IntV(7), sps) :
        sps \in SeqsUpTo({RawSplit(IntV(7))}, MaxSplits)}
        \cup {Entry(IntV(2), NoType, IntV(7), sps) :
                 sps \in SeqsUpTo({RawSplit(IntV(7))}, 1)}

ActivityService ==
    [argv |-> {StrV(1)},
     stats |-> {},
     hydration |-> {},
     sleep |-> {},
     hrv |-> {},
     activities |-> {ActivityList(l) : l \in SeqsUpTo(ActivityEntries, MaxActs)}]

NextAct == NextOf(ActivityService, FALSE)

SpecAct == Init /\ [][NextAct]_vars

\* The stats, hydration and activity sources answer with values, sentinels and
\* zero; the activities have no splits.
RowService ==
    [argv |-> {StrV(1)},
     stats |-> {Stats(StrV(1), v) : v \in {IntV(7), IntV(-1), IntV(0)}},
     hydration |-> {Hydration(v) : v \in {IntV(5), FloatV(-2)}},
     sleep |-> {},
     hrv |-> {},
     activities |-> {ActivityList(<<Entry(IntV(1), Type(t), d, <<>>)>>) :
                        t \in {IntV(3), IntV(-1)}, d \in {IntV(7), IntV(-2)}}]

NextRows == NextOf(RowService, FALSE)

SpecRows == Init /\ [][NextRows]_vars

\* Every source answers; after a committed run the command line and the
\* service repeat themselves (see Served and Close).
RepeatService ==
    [argv |-> {StrV(1)},
     stats |-> {Stats(StrV(1), IntV(7))},
     hydration |-> {Hydration(IntV(5))},
     sleep |-> {Sleep(Dto(StrV(1), IntV(7)))},
     hrv |-> {Hrv(Summary(StrV(1), IntV(7), Baseline(IntV(7))))},
     activities |-> {ActivityList(l) : l \in SeqsUpTo(ActivityEntries, MaxActs)}]

NextTwice == NextOf(RepeatService, TRUE)

SpecTwice == Init /\ [][NextTwice]_vars

\* The stats source answers with every kind of value in totalSteps: a missing
\* key, null, booleans, and integers, floats and strings around the sentinels;
\* the hydration source with a string and a float; the activity source with
\* one activity of one split.
SentinelNumbers == -3..1
SentinelInputs ==
    {Missing, None, BoolV(0), BoolV(1)}
        \cup {IntV(n) : n \in SentinelNumbers}
        \cup {FloatV(n) : n \in SentinelNumbers}
        \cup {StrV(n) : n \in SentinelNumbers}

SentinelService ==
    [argv |-> {StrV(1)},
     stats |-> {Stats(StrV(1), v) : v \in SentinelInputs},
     hydration |-> {Hydration(v) : v \in {StrV(-1), FloatV(-1)}},
     sleep |-> {},
     hrv |-> {},
     activities |-> {ActivityList(<<Entry(IntV(1), NoType, FloatV(-2), <<RawSplit(IntV(0))>>)>>)}]

NextSentinel == NextOf(SentinelService, FALSE)

SpecSentinel == Init /\ [][NextSentinel]_vars

\* The command line names either day, and the stats source answers with a
\* calendarDate of either day, whatever day was asked for; the activity source
\* answers with activity 1 and one split, or with activity 2 and none.
DateService ==
    [argv |-> {StrV(d) : d \in Dates},
     stats |-> {Stats(StrV(d), IntV(7)) : d \in Dates},
     hydration |-> {},
     sleep |-> {Sleep(Dto(StrV(1), IntV(7)))},
     hrv |-> {},
     activities |-> {ActivityList(<<Entry(IntV(1), NoType, IntV(7), <<RawSplit(IntV(7))>>)>>),
                     ActivityList(<<Entry(IntV(2), NoType, IntV(7), <<>>)>>)}]

NextDates == NextOf(DateService, FALSE)

SpecDates == Init /\ [][NextDates]_vars

(***************************************************************************)
(* Properties.                                                             *)
(***************************************************************************)
Has(l) == \E i \in 1..Len(log) : log[i] = l
LastStep == IF log = <<>> THEN "none" ELSE log[Len(log)]
\* The run has committed (it is about to close its session, or has ended).
Committed == outcome = "ok"

items == activities_data.items
\* The run carries an entry with activity identifier aid.
Carried(aid) == \E i \in 1..Len(items) : items[i].activityId = IntV(aid)
\* The split entries (entry, position) the run carries for aid.
SplitEntries(aid) ==
    UNION {{<<i, j>> : j \in 1..Len(items[i].splitSummaries)} :
              i \in {k \in 1..Len(items) : items[k].activityId = IntV(aid)}}
SplitEntryValue(e) == ParseSplits(items[e[1]].splitSummaries)[e[2]].distance_meters
SplitsOf(d, aid) == {r \in d.activity_split_summaries : r.activity_id = aid}

SplitsHaveParent(d) ==
    \A r \in d.activity_split_summaries :
        \E a \in d.activities : a.activity_id = r.activity_id
ActivitySteps == SelectSeq(log, LAMBDA l : l \in {"delete", "merge", "flush", "add"})
StepOrder == <<"delete", "merge", "flush", "add">>

\* C1: in every state, inside the transaction and in the committed store,
\* every split row has the key of an existing activity row, and so has every
\* split object waiting to be inserted; the per-activity steps of a run are
\* delete, merge, flush, add, in this order, once per activity.
C1_ParentBeforeChildren ==
    /\ SplitsHaveParent(txn)
    /\ SplitsHaveParent(db)
    /\ \A i \in 1..Len(pending.added) :
          \E a \in txn.activities : a.activity_id = pending.added[i].activity_id
    /\ \A i \in 1..Len(ActivitySteps) : ActivitySteps[i] = StepOrder[((i - 1) % 4) + 1]
    /\ Has("commit") => Len(ActivitySteps) = 4 * Len(activities)

\* A committed run of two activities that replaced stored splits.
C1_Witness ==
    /\ Committed
    /\ Len(activities) = 2
    /\ \E aid \in ActivityIds : SplitsOf(db_before, aid) # {} /\ SplitsOf(db, aid) # {}

StoredCount(d, aid, v) == Cardinality({r \in SplitsOf(d, aid) : r.distance_meters = v})
SplitValues(d) == {r.distance_meters : r \in d.activity_split_summaries}
\* The position of the last entry that carries aid.
LastEntry(aid) ==
    CHOOSE k \in 1..Len(items) :
       /\ items[k].activityId = IntV(aid)
       /\ \A m \in (k + 1)..Len(items) : items[m].activityId # IntV(aid)
\* The split entries of the last entry that carries aid.
LastSplitEntries(aid) == {e \in SplitEntries(aid) : e[1] = LastEntry(aid)}
\* The last parsed activity with the identifier of activities[i].
LastWithId(i) ==
    activities[CHOOSE k \in 1..Len(activities) :
                  /\ activities[k].activity_id = activities[i].activity_id
                  /\ \A m \in (k + 1)..Len(activities) :
                        activities[m].activity_id # activities[i].activity_id]
\* Every parsed record is stored under its key: the daily records, and for
\* every activity identifier the row and the splits of its last entry.
EveryRecordStored ==
    /\ rows.daily_summary \subseteq db.daily_summary
    /\ rows.daily_sleep \subseteq db.daily_sleep
    /\ rows.daily_hrv \subseteq db.daily_hrv
    /\ \A i \in 1..Len(activities) : ActivityRow(LastWithId(i)) \in db.activities
    /\ \A aid \in ActivityIds :
          Carried(aid) =>
             \A v \in {SplitEntryValue(e) : e \in LastSplitEntries(aid)} :
                StoredCount(db, aid, v)
                   >= Cardinality({e \in LastSplitEntries(aid) : SplitEntryValue(e) = v})

\* C2: the committed store changes at the commit only, so a run that fails or
\* is interrupted leaves it as it was when the run started; a failure sends
\* the run to the close of its session and nothing else follows; once the run
\* has ended nothing is left pending; a run that commits stores every parsed
\* record under its key (of the entries of one list that share an activity
\* identifier, the last).
C2_AllOrNothing ==
    /\ ~Committed => db = db_before
    /\ Has("fail") =>
          /\ outcome = "error"
          /\ \/ pc = "close" /\ LastStep = "fail"
             \/ pc = "done" /\ LastStep = "close" /\ log[Len(log) - 1] = "fail"
    /\ pc = "done" => txn = db /\ pending = NoPending
    /\ Committed => EveryRecordStored

\* A run that failed after it had deleted the stored splits of an activity.
C2_Witness ==
    /\ pc = "done"
    /\ outcome = "error"
    /\ Has("delete")
    /\ Has("fail")
    /\ db.activity_split_summaries # {}

\* The run carries aid in exactly one entry.
CarriedOnce(aid) ==
    Cardinality({k \in 1..Len(items) : items[k].activityId = IntV(aid)}) = 1

\* C3: after a committed run that carries an activity identifier, none of the
\* split rows stored for it is a row that was stored before the run, and when
\* one entry carries the identifier the rows stored for it are as many as the
\* split entries of that entry.
C3_SplitsReplaced ==
    Committed =>
       \A aid \in ActivityIds :
          Carried(aid) =>
             /\ \A r \in SplitsOf(db, aid) :
                   /\ r.id >= id_before
                   /\ \A o \in db_before.activity_split_summaries : o.id # r.id
             /\ CarriedOnce(aid) =>
                   Cardinality(SplitsOf(db, aid)) = Cardinality(SplitEntries(aid))

\* A committed run that carries fewer splits than were stored.
C3_Witness ==
    /\ Committed
    /\ \E aid \in ActivityIds :
          /\ CarriedOnce(aid)
          /\ Cardinality(SplitsOf(db_before, aid)) = 2
          /\ Cardinality(SplitsOf(db, aid)) = 1

SamePayloads ==
    /\ prev.valid
    /\ prev.target_date = target_date
    /\ prev.stats_body = stats_body
    /\ prev.hydration = hydration
    /\ prev.sleep_data = sleep_data
    /\ prev.hrv_data = hrv_data
    /\ prev.activities_data = activities_data
UniqueKeys(d) ==
    /\ \A r, q \in d.daily_summary : r.calendar_date = q.calendar_date => r = q
    /\ \A r, q \in d.daily_sleep : r.calendar_date = q.calendar_date => r = q
    /\ \A r, q \in d.daily_hrv : r.calendar_date = q.calendar_date => r = q
    /\ \A r, q \in d.activities : r.activity_id = q.activity_id => r = q
    /\ \A r, q \in d.activity_split_summaries : r.id = q.id => r = q
\* The same rows, split rows compared without their surrogate id.
SameContent(a, b) ==
    /\ a.daily_summary = b.daily_summary
    /\ a.daily_sleep = b.daily_sleep
    /\ a.daily_hrv = b.daily_hrv
    /\ a.activities = b.activities
    /\ \A aid \in ActivityIds : \A v \in SplitValues(a) \cup SplitValues(b) :
          StoredCount(a, aid, v) = StoredCount(b, aid, v)

\* C4: when a run commits with the date and the payloads of the committed run
\* before it, the store holds the rows that run left (split rows up to their
\* surrogate id), and no key is stored twice.
C4_Idempotent ==
    /\ UniqueKeys(db)
    /\ (pc = "close" /\ Committed /\ SamePayloads) => SameContent(db, prev.db)

\* A second committed run with daily records and two activities with splits.
C4_Witness ==
    /\ pc = "close"
    /\ Committed
    /\ SamePayloads
    /\ db.daily_summary # {}
    /\ Len(activities) = 2
    /\ Cardinality(db.activity_split_summaries) >= 2

FetchOrder == <<"fetch_stats", "fetch_hydration", "fetch_sleep", "fetch_hrv",
                "fetch_activities">>
AfterFetch == <<"fetch_hydration", "fetch_sleep", "fetch_hrv", "fetch_activities",
                "parse_summary">>
Fetches == SelectSeq(log, LAMBDA l : \E i \in 1..5 : FetchOrder[i] = l)

\* Each source is fetched at most once, in the fixed order, and all five have
\* been fetched when parsing starts.
FetchedOnceInOrder ==
    /\ Len(Fetches) <= 5
    /\ \A i \in 1..Len(Fetches) : Fetches[i] = FetchOrder[i]
    /\ (pc = "parse_summary" \/ Has("parse_summary")) => Len(Fetches) = 5
\* Whatever a fetch gave, the run goes on with the step after it.
FetchNeverEndsRun ==
    \A i \in 1..5 : LastStep = FetchOrder[i] => pc = AfterFetch[i] /\ outcome = "running"
\* In a committed run the record of every fetched stats, sleep, HRV and
\* activity payload is stored, whatever the other fetches gave.
FetchedRecordsStored ==
    Committed =>
       /\ Truthy(stats_body) =>
             parse_daily_summary(stats_body, hydration).rec \in db.daily_summary
       /\ (Truthy(sleep_data) /\ ~parse_daily_sleep(sleep_data).none) =>
             parse_daily_sleep(sleep_data).rec \in db.daily_sleep
       /\ (Truthy(hrv_data) /\ ~parse_daily_hrv(hrv_data).none) =>
             parse_daily_hrv(hrv_data).rec \in db.daily_hrv
       /\ activities_data.kind = "list" =>
             \A i \in 1..Len(items) :
                \E r \in db.activities : r.activity_id = items[i].activityId.num
\* In a committed run the fetched hydration value is stored for the target date.
FetchedHydrationStored ==
    (Committed /\ Truthy(hydration)) =>
       \E r \in db.daily_summary :
          /\ r.calendar_date = target_date.num
          /\ r.hydration_value_ml = _sentinel(HydrationValue(hydration))

\* C5 as stated: the five sources are fetched once each in order, no fetch
\* failure ends the run, and in a committed run every source that was fetched,
\* hydration included, is persisted whatever the other fetches gave.
C5_Original ==
    /\ FetchedOnceInOrder
    /\ FetchNeverEndsRun
    /\ FetchedRecordsStored
    /\ FetchedHydrationStored

\* C5 amended: as C5_Original, but hydration is persisted only as fields of
\* the DailySummary record: it is stored when the stats payload was fetched
\* too, and dropped with it otherwise.
C5_FetchIsolation ==
    /\ FetchedOnceInOrder
    /\ FetchNeverEndsRun
    /\ FetchedRecordsStored
    /\ (Committed /\ ~Truthy(stats_body)) =>
          \A r \in db.daily_summary : r \in db_before.daily_summary

\* A committed run whose stats fetch failed while hydration and sleep answered.
C5_Witness ==
    /\ Committed
    /\ stats_body = NoStats
    /\ Truthy(hydration)
    /\ db.daily_sleep # {}
    /\ db.daily_summary = {}

DailyParseSteps == {"parse_summary", "parse_sleep", "parse_hrv"}

\* C6 as stated: a failure to parse a mandatory field of a daily record does
\* not abort the run: no run ends in an error at a daily parse step.
C6_Original ==
    ~(pc = "done" /\ outcome = "error" /\ LastStep \in DailyParseSteps)

\* C7 as stated: once the activity parser has run on a fetched list, every
\* entry of the list that has an identifier is among the parsed activities.
C7_Original ==
    (Has("parse_activities") /\ activities_data.kind = "list") =>
       \A i \in 1..Len(items) :
          items[i].activityId # Missing =>
             \E k \in 1..Len(activities) :
                activities[k].activity_id = items[i].activityId.num

\* C8: when the test of "nothing to save" finds no daily record and no
\* activity, the run has ended with that outcome, without init_db, without a
\* session and with the store, the transaction and the id counter untouched;
\* and that outcome is reached in no other way.
C8_NothingToSave ==
    /\ (Has("check") /\ rows = NoRows /\ activities = <<>>) =>
          /\ pc = "done"
          /\ outcome = "nothing"
          /\ ~Has("init_db")
          /\ ~Has("get_session")
          /\ session = "none"
          /\ pending = NoPending
          /\ db = db_before
          /\ txn = db_before
          /\ next_split_id = id_before
    /\ outcome = "nothing" => (LastStep = "check" /\ rows = NoRows /\ activities = <<>>)

\* A run with nothing to save, on a store that holds rows, after a sleep
\* payload that was fetched but has no summary.
C8_Witness ==
    /\ pc = "done"
    /\ outcome = "nothing"
    /\ Truthy(sleep_data)
    /\ db # EmptyDb

\* C9: after a committed run the row stored under the key of a parsed daily
\* record or activity is that record, column by column, and it is the only
\* row under that key; a column that is absent in the new payload is stored
\* absent.
C9_WholeRowReplaced ==
    Committed =>
       /\ \A r \in rows.daily_summary :
             /\ {q \in db.daily_summary : q.calendar_date = r.calendar_date} = {r}
             /\ r.total_steps = _sentinel(Get(stats_body.totalSteps))
             /\ r.hydration_value_ml = _sentinel(HydrationValue(hydration))
       /\ \A r \in rows.daily_sleep :
             {q \in db.daily_sleep : q.calendar_date = r.calendar_date} = {r}
       /\ \A r \in rows.daily_hrv :
             {q \in db.daily_hrv : q.calendar_date = r.calendar_date} = {r}
       /\ \A i \in 1..Len(activities) :
             {q \in db.activities : q.activity_id = activities[i].activity_id}
                = {ActivityRow(LastWithId(i))}

\* A committed run that stored absent over a stored value, in a daily row and
\* in an activity row.
C9_Witness ==
    /\ Committed
    /\ \E o \in db_before.daily_summary : \E r \in db.daily_summary :
          /\ o.calendar_date = r.calendar_date
          /\ o.total_steps = IntV(7) /\ r.total_steps = None
          /\ o.hydration_value_ml = IntV(5) /\ r.hydration_value_ml = None
    /\ \E o \in db_before.activities : \E r \in db.activities :
          /\ o.activity_id = r.activity_id
          /\ o.distance_meters = IntV(7) /\ r.distance_meters = None

IsSentinel(v) == v.kind \in {"int", "float"} /\ v.num \in {-1, -2}
NoSentinelStored(d) ==
    /\ \A r \in d.daily_summary :
          ~IsSentinel(r.total_steps) /\ ~IsSentinel(r.hydration_value_ml)
    /\ \A r \in d.daily_sleep : ~IsSentinel(r.sleep_time_seconds)
    /\ \A r \in d.daily_hrv :
          ~IsSentinel(r.weekly_avg) /\ ~IsSentinel(r.baseline_low_upper)
    /\ \A r \in d.activities :
          ~IsSentinel(r.activity_type_id) /\ ~IsSentinel(r.distance_meters)
    /\ \A r \in d.activity_split_summaries : ~IsSentinel(r.distance_meters)

\* C10 as stated: no optional numeric column of a stored daily, activity or
\* split row holds -1 or -2, and a source value of 0 is stored as 0.
C10_Original ==
    /\ NoSentinelStored(db)
    /\ (Committed /\ Truthy(stats_body) /\ stats_body.totalSteps = IntV(0)) =>
          \A r \in rows.daily_summary : r \in db.daily_summary /\ r.total_steps = IntV(0)

\* What the normalizer is to return for v: absent for an absent value and for
\* the numbers -1 and -2, the value itself otherwise.
SentinelExpected(v) ==
    IF v \in {Missing, None, IntV(-1), IntV(-2), FloatV(-1), FloatV(-2)}
    THEN None
    ELSE v

\* C11: for every input value the normalizer returns absent exactly when the
\* value is absent or is the integer or float -1 or -2, and the value unchanged
\* otherwise (0 stays 0, the string "-1" stays "-1"); and that is the value
\* the parser puts in the record, for the steps and for the hydration.
C11_SentinelNormalizes ==
    /\ \A v \in SentinelInputs : _sentinel(Get(v)) = SentinelExpected(v)
    /\ \A v \in SentinelInputs :
          _sentinel(Get(v)) = None <=>
             v \in {Missing, None, IntV(-1), IntV(-2), FloatV(-1), FloatV(-2)}
    /\ Has("parse_summary") =>
          \A r \in rows.daily_summary :
             /\ r.total_steps = SentinelExpected(stats_body.totalSteps)
             /\ r.hydration_value_ml = SentinelExpected(HydrationValue(hydration))

\* A parsed record that kept 0 steps and the string "-1".
C11_Witness ==
    /\ Has("parse_summary")
    /\ stats_body.totalSteps = IntV(0)
    /\ hydration = Hydration(StrV(-1))
    /\ \E r \in rows.daily_summary :
          r.total_steps = IntV(0) /\ r.hydration_value_ml = StrV(-1)

\* The fetched sleep payload has no summary sub-object (the key is missing,
\* null or an empty mapping), or a summary without a calendar date.
SleepWithoutSummary ==
    /\ Truthy(sleep_data)
    /\ \/ sleep_data.dailySleepDTO.kind \in {"missing", "none", "empty"}
       \/ sleep_data.dailySleepDTO.calendarDate \in {Missing, None}

\* C12: when the fetched sleep payload has no summary or no calendar date, the
\* sleep parser yields no record and the run goes on with the HRV parser
\* without an error; the run writes no DailySleep row, and when it commits the
\* DailySummary and DailyHrv records it parsed are stored.
C12_SleepSkipped ==
    SleepWithoutSummary =>
       /\ rows.daily_sleep = {}
       /\ LastStep = "parse_sleep" => (pc = "parse_hrv" /\ outcome = "running")
       /\ db.daily_sleep = db_before.daily_sleep
       /\ Committed =>
             /\ Truthy(stats_body) =>
                   parse_daily_summary(stats_body, hydration).rec \in db.daily_summary
             /\ (Truthy(hrv_data) /\ ~parse_daily_hrv(hrv_data).none) =>
                   parse_daily_hrv(hrv_data).rec \in db.daily_hrv

\* A committed run whose sleep summary had no calendar date and that stored a
\* DailySummary and a DailyHrv row, but no DailySleep row.
C12_Witness ==
    /\ Committed
    /\ sleep_data = Sleep(Dto(Missing, IntV(7)))
    /\ Truthy(stats_body)
    /\ Truthy(hrv_data)
    /\ db_before.daily_summary = {}
    /\ db.daily_summary # {}
    /\ db.daily_hrv # {}
    /\ db.daily_sleep = {}

FetchSteps == {"fetch_stats", "fetch_hydration", "fetch_sleep", "fetch_hrv",
               "fetch_activities"}
\* Nothing was written and no session was opened in this run.
NothingWritten ==
    /\ db = db_before
    /\ txn = db_before
    /\ pending = NoPending
    /\ next_split_id = id_before
    /\ session = "none"
    /\ ~Has("get_session")

\* C13: a fetch is attempted, or about to be, only in a run whose date is a
\* well-formed calendar date (given, or defaulted to the previous day) and
\* whose authentication, the step before the first fetch, gave a client; a
\* malformed date ends the run at its first step and a failed authentication
\* at its second, with a failure outcome, no fetch and nothing written.
C13_NoFetchBeforeAuth ==
    /\ (pc \in FetchSteps \/ Len(Fetches) > 0) =>
          /\ IsIsoDate(target_date)
          /\ api = "client"
          /\ Len(log) >= 2 /\ log[1] = "start" /\ log[2] = "auth"
    /\ (pc # "idle" /\ ~IsIsoDate(target_date)) =>
          /\ pc = "done"
          /\ outcome = "error"
          /\ log = <<"start">>
          /\ NothingWritten
    /\ (Has("auth") /\ api = "none") =>
          /\ pc = "done"
          /\ outcome = "error"
          /\ log = <<"start", "auth">>
          /\ NothingWritten

\* A run on a store that holds rows, ended by a failed authentication.
C13_Witness ==
    /\ pc = "done"
    /\ outcome = "error"
    /\ log = <<"start", "auth">>
    /\ api = "none"
    /\ db.activities # {}

ParseOrder == <<"parse_summary", "parse_sleep", "parse_hrv", "parse_activities">>
FetchAndParse == {FetchOrder[i] : i \in 1..5} \cup {ParseOrder[i] : i \in 1..4}
\* The position of the step that acquired the session.
Acquired == CHOOSE k \in 1..Len(log) : log[k] = "get_session"

\* C14: the session is open only in the persist phase; when it is acquired
\* the five fetches and the four parse steps of the run are behind it and none
\* follows; every run that acquired it ends with the session closed, nothing
\* pending and the transaction ended, by its close after the commit, after a
\* failure or after an interrupt, and without a commit the store is as before.
C14_SessionScoped ==
    /\ session = "open" <=> pc \in PersistSteps \cup {"close"}
    /\ Has("get_session") =>
          /\ \A l \in FetchAndParse : \E i \in 1..(Acquired - 1) : log[i] = l
          /\ \A i \in Acquired..Len(log) : log[i] \notin FetchAndParse
    /\ (pc \in FetchSteps \/ LastStep \in FetchAndParse) => session = "none"
    /\ (pc = "done" /\ Has("get_session")) =>
          /\ session = "closed"
          /\ LastStep = "close"
          /\ log[Len(log) - 1] \in {"commit", "fail", "interrupt"}
          /\ pending = NoPending
          /\ txn = db
          /\ Has("commit") \/ db = db_before

\* A run interrupted between the flush of an activity and its commit, on a
\* store that holds rows, that closed its session.
C14_Witness ==
    /\ pc = "done"
    /\ outcome = "interrupted"
    /\ Has("flush")
    /\ session = "closed"
    /\ db.activities # {}
    /\ db = db_before

\* C15 as stated: when a committed run carries an activity identifier in more
\* than one entry of its list, the split rows stored for that identifier are
\* as many as the split entries of the last of those entries, not of several.
C15_Original ==
    Committed =>
       \A aid \in ActivityIds :
          (Carried(aid) /\ ~CarriedOnce(aid)) =>
             Cardinality(SplitsOf(db, aid)) = Cardinality(LastSplitEntries(aid))

DailyTables == {"daily_summary", "daily_sleep", "daily_hrv"}
\* The run parsed a record with this key.
ParsedDate(t, d) == \E q \in rows[t] : q.calendar_date = d
ParsedActivity(aid) == \E i \in 1..Len(activities) : activities[i].activity_id = aid

\* C16: after a committed run every daily row of a date for which the run
\* parsed no record of that table, every activity row of an identifier the run
\* did not parse, and every split row of such an activity is what it was
\* before the run; no row appears under such a key; and every daily and
\* activity key stored before the run is still stored.
C16_OnlyParsedKeysChange ==
    Committed =>
       /\ \A t \in DailyTables :
             /\ \A r \in db_before[t] \cup db[t] :
                   ~ParsedDate(t, r.calendar_date) => (r \in db_before[t] /\ r \in db[t])
             /\ \A r \in db_before[t] : \E q \in db[t] : q.calendar_date = r.calendar_date
             /\ rows[t] = {} => db[t] = db_before[t]
       /\ \A r \in db_before.activities \cup db.activities :
             ~ParsedActivity(r.activity_id) =>
                (r \in db_before.activities /\ r \in db.activities)
       /\ \A r \in db_before.activities : \E q \in db.activities : q.activity_id = r.activity_id
       /\ \A r \in db_before.activity_split_summaries \cup db.activity_split_summaries :
             ~ParsedActivity(r.activity_id) =>
                (r \in db_before.activity_split_summaries
                    /\ r \in db.activity_split_summaries)

\* A committed run that wrote a daily summary and an activity on a store that
\* held a summary of the other date, a sleep row whose source failed in this
\* run, and another activity with a split.
C16_Witness ==
    /\ Committed
    /\ sleep_data = NoSleep
    /\ db.daily_sleep # {}
    /\ \E r \in rows.daily_summary : r \notin db_before.daily_summary
    /\ \E r \in db_before.daily_summary : ~ParsedDate("daily_summary", r.calendar_date)
    /\ \E i \in 1..Len(activities) :
          \A r \in db_before.activities : r.activity_id # activities[i].activity_id
    /\ \E r \in db.activity_split_summaries : ~ParsedActivity(r.activity_id)

\* C17 as stated: in a committed run for target date D every parsed daily
\* record and every parsed activity has calendar_date = D, and every daily row
\* of another date is what it was before the run.
C17_Original ==
    Committed =>
       /\ \A t \in DailyTables : \A r \in rows[t] : r.calendar_date = target_date.num
       /\ \A i \in 1..Len(activities) : activities[i].calendar_date = target_date.num
       /\ \A t \in DailyTables : \A r \in db_before[t] :
             r.calendar_date # target_date.num => r \in db[t]

=============================================================================
